---- MODULE Spec2Model ----
(***************************************************************************)
(* medlit-assist: the conversational retrieval orchestrator               *)
(* (src/src/agent.py, OllamaAgent), the retrieval tool adapter             *)
(* (src/src/tools.py, search_pubmed_central) and the chat transport        *)
(* (src/app.py, start / main) as one state machine.                        *)
(*                                                                         *)
(* A turn is main() consuming the async generator astream(): every         *)
(* action below is the code between two suspension points (an await or a   *)
(* yield) of that generator, together with the consumer's loop body for    *)
(* the fragment that was yielded.                                          *)
(*                                                                         *)
(* Spec follows the chat. SpecFetch follows one retrieval through the      *)
(* adapter, PMCEndpoint.fetch_pmc_records and the repository calls;        *)
(* SpecNorm follows PMCEndpoint._clean_abstract step by step, twice over;  *)
(* SpecApa follows one call of PMCEndpoint._format_apa                     *)
(* (src/src/pmc_endpoint.py).                                              *)
(***************************************************************************)
EXTENDS Naturals, Sequences, FiniteSets, TLC

VARIABLES
    documents,        \* agent.documents (self.documents)
    llm_with_tools,   \* agent.llm_with_tools: "tooled" or "plain"
    chat_history,     \* cl.user_session["chat_history"]
    pc,               \* where main()/astream() is suspended
    user_input,       \* message.content of the turn
    response,         \* the decision response of the turn
    tc,               \* index of the tool call the for loop is at
    stream_messages,  \* the messages of the streaming inference call
    n_chunks,         \* chunks the inference streams of the session produced
    n_invocations,    \* adapter invocations of the session
    chunks,           \* fragments the generator yielded this turn
    full_response,    \* main's accumulator
    rendered,         \* fragments main handed to msg.stream_token
    log,              \* calls and yields of the turn, in order
    invoke_messages,  \* the messages of the decision call
    invocations,      \* adapter invocations of the turn: arguments, result
    streamed,         \* chunks the open inference stream has produced
    outcome,          \* how the last turn ended
    docs_at_start,    \* agent.documents when the turn began
    history_at_start, \* chat_history when the turn began
    turns,            \* turns started so far
    tools_list,       \* agent.tools_list
    bind_fails,       \* whether llm.bind_tools raises for this model
    constructed,      \* OllamaAgent(...) returned an agent
    invoke_client     \* the client the decision call of the turn went to

\* one retrieval: the adapter, fetch_pmc_records and the repository calls
VARIABLES
    r_pc,             \* where the retrieval is suspended
    r_input,          \* how the adapter was invoked, and with what
    r_ids,            \* pmc_ids, the IdList of the search
    r_i,              \* identifiers the for loop has finished
    r_xml,            \* xml_data of the identifier the loop is at
    r_articles,       \* articles built so far
    r_log,            \* repository calls and parses, in order
    r_fetched,        \* how fetch_pmc_records ended
    r_result,         \* how search_pubmed_central ended
    r_fragment        \* the fragment astream yields for that result

\* one run of the abstract normalizer, applied to its own output once more
VARIABLES
    norm_pc,          \* the step _clean_abstract is at
    norm_raw,         \* raw_abstract of the first pass
    norm_text,        \* text
    norm_pass,        \* 1: on raw_abstract, 2: on the first pass's result
    norm_first        \* the result of the first pass

\* one call of the citation formatter
VARIABLES
    apa_pc,           \* whether _format_apa has returned
    apa_fields,       \* its arguments
    apa_citation      \* its result
\* the year loop of _parse_article over the pub-date elements of one article
VARIABLES
    year_pc,          \* whether the loop is running or over
    pub_dates,        \* root.findall(".//pub-date"), in document order
    year_i,           \* pub-date elements the loop has passed
    year              \* the local year

orch_vars == <<documents, llm_with_tools, chat_history, pc, user_input,
               response, tc, stream_messages, n_chunks, n_invocations, chunks,
               full_response, rendered, log, invoke_messages, invocations,
               streamed, outcome, docs_at_start, history_at_start, turns,
               tools_list, bind_fails, constructed, invoke_client>>

setup_vars == <<tools_list, bind_fails, constructed>>

fetch_vars == <<r_pc, r_input, r_ids, r_i, r_xml, r_articles, r_log,
                r_fetched, r_result, r_fragment>>

norm_vars == <<norm_pc, norm_raw, norm_text, norm_pass, norm_first>>

apa_vars == <<apa_pc, apa_fields, apa_citation>>

year_vars == <<year_pc, pub_dates, year_i, year>>

\* what a turn of the chat leaves alone
other_vars == <<fetch_vars, norm_vars, apa_vars, year_vars>>

vars == <<orch_vars, fetch_vars, norm_vars, apa_vars, year_vars>>

(***************************************************************************)
(* Bounds                                                                  *)
(***************************************************************************)
\* turns of a session
MaxTurns == 2
\* chunks the inference service streams in a session
MaxChunks == 2
\* adapter invocations in a session
MaxInvocations == 2

(***************************************************************************)
(* Inputs                                                                  *)
(***************************************************************************)
UserInputs == {"ask"}

ToolName == "search_pubmed_central"

\* the tools argument of OllamaAgent(...): app.py passes the adapter
ToolLists == {<<>>, <<ToolName>>}

\* line 90 letting every tool name through
AnyToolName == {ToolName, "other_tool"}

\* line 22: the names in self.tools
RegisteredTools == {tools_list[i] : i \in DOMAIN tools_list}

\* tool_call dictionaries of a decision response; has_* tell which keys of
\* "args" are present
CallFull == [name |-> ToolName, has_query |-> TRUE, query |-> "flu",
             has_max_results |-> TRUE, max_results |-> 1]
CallBare == [name |-> ToolName, has_query |-> FALSE, query |-> "",
             has_max_results |-> FALSE, max_results |-> 0]
CallOther == [name |-> "other_tool", has_query |-> TRUE, query |-> "flu",
              has_max_results |-> TRUE, max_results |-> 1]

ToolCallLists ==
    { <<CallBare>>, <<CallOther>>, <<CallFull, CallBare>>,
      <<CallOther, CallFull>> }

NoResponse == [has_tool_calls |-> FALSE, tool_calls |-> <<>>,
               has_content |-> FALSE, content |-> "", repr |-> ""]

\* what llm_with_tools.ainvoke can return
Responses ==
    { [has_tool_calls |-> TRUE, tool_calls |-> <<>>,
       has_content |-> TRUE, content |-> "Hi", repr |-> "AIMessage"],
      [has_tool_calls |-> TRUE, tool_calls |-> <<>>,
       has_content |-> TRUE, content |-> "", repr |-> "AIMessage"],
      [has_tool_calls |-> FALSE, tool_calls |-> <<>>,
       has_content |-> FALSE, content |-> "", repr |-> "Raw"] }
    \cup
    { [has_tool_calls |-> TRUE, tool_calls |-> l,
       has_content |-> TRUE, content |-> "", repr |-> "AIMessage"]
        : l \in ToolCallLists }

\* records PMCEndpoint.fetch_pmc_records can return
Rec1 == [pmcid |-> "PMC1", apa_citation |-> "Cit1", abstract |-> "Abs1"]
Rec2 == [pmcid |-> "PMC2", apa_citation |-> "Cit2", abstract |-> ""]

RecordLists == { <<>>, <<Rec1>>, <<Rec2, Rec1>> }

FetchOutcomes ==
    { [ok |-> TRUE, records |-> r, err |-> ""] : r \in RecordLists }
    \cup { [ok |-> FALSE, records |-> <<>>, err |-> "Network error"] }

\* chunks an inference stream can produce: one with a content attribute,
\* one without
ContentChunk == [has_content |-> TRUE, content |-> "a", repr |-> "Chunk"]
BareChunk == [has_content |-> FALSE, content |-> "", repr |-> "b"]

\* the chunk the inference service streams after n chunks of the session
StreamChunk(n) == IF n % 2 = 0 THEN ContentChunk ELSE BareChunk

StreamError == "stream down"

(***************************************************************************)
(* src/src/tools.py                                                        *)
(***************************************************************************)
\* lines 26-30 with the citation and the abstract taking each other's key
ToDocumentSwapped(result) ==
    [pmcid |-> result.pmcid, citation |-> result.abstract,
     abstract |-> result.apa_citation]

\* lines 26-30
ToDocument(result) ==
    [pmcid |-> result.pmcid, citation |-> result.apa_citation,
     abstract |-> result.abstract]

\* lines 20-33 without the except of lines 34-35: the failure of
\* fetch_pmc_records surfaces as it is
SearchUnwrapped(fetched) ==
    IF fetched.ok
    THEN [raised |-> FALSE,
          value |-> [i \in 1..Len(fetched.records) |->
                        ToDocument(fetched.records[i])],
          msg |-> ""]
    ELSE [raised |-> TRUE, value |-> <<>>, msg |-> fetched.err]

\* search_pubmed_central on the outcome of its fetch_pmc_records call
search_pubmed_central(fetched) ==
    IF fetched.ok
    THEN [raised |-> FALSE,
          value |-> [i \in 1..Len(fetched.records) |->
                        ToDocument(fetched.records[i])],
          msg |-> ""]
    ELSE [raised |-> TRUE, value |-> <<>>,
          msg |-> "Error searching PubMed Central: " \o fetched.err]

(***************************************************************************)
(* src/src/agent.py: pure parts of astream                                 *)
(***************************************************************************)
Message(role, content, context) ==
    [role |-> role, content |-> content, context |-> context]

HumanMessage(content) == Message("human", content, <<>>)

AIMessage(content) == Message("ai", content, <<>>)

\* the numbered evidence block built from a document list
Context(docs) ==
    [i \in 1..Len(docs) |->
        [n |-> i, pmcid |-> docs[i].pmcid, citation |-> docs[i].citation,
         abstract |-> docs[i].abstract]]

DecisionSystem == Message("system", "assistant+tools", <<>>)

\* lines 59-78: the decision messages, and the caller's list afterwards
BuildDecisionAliased(history, input) ==
    [messages |-> <<DecisionSystem>> \o history \o <<HumanMessage(input)>>,
     chat_history |-> history \o <<HumanMessage(input)>>]

BuildDecisionNoHistory(history, input) ==
    [messages |-> <<DecisionSystem>> \o <<HumanMessage(input)>>,
     chat_history |-> history]

BuildDecision(history, input) ==
    [messages |-> <<DecisionSystem>> \o history \o <<HumanMessage(input)>>,
     chat_history |-> history]

\* line 84
HasToolCalls(resp) == resp.has_tool_calls /\ resp.tool_calls # <<>>

\* lines 91-92
ArgQuery(call) == IF call.has_query THEN call.query ELSE ""

DefaultMaxResults == 3

\* line 92 with the default of fetch_pmc_records in the place of its own
ArgMaxResultsRetmax(call) ==
    IF call.has_max_results THEN call.max_results ELSE 5

\* line 92
ArgMaxResults(call) ==
    IF call.has_max_results THEN call.max_results ELSE DefaultMaxResults

\* line 94
ProgressFragment(query) == "Searching **" \o query \o "**|"

\* line 147
FoundFragment(n) == "Found " \o ToString(n) \o "|"

\* line 157
ClosingFragment == "|Any other follow-up questions?"

\* line 159
NoArticlesFragment == "No articles found for that query."

\* line 161 without the message of the exception
ErrorFragmentBare(msg) == "Error: "

\* line 161
ErrorFragment(msg) == "Error: " \o msg

\* lines 114-145
SynthesisMessages(tool_result, input) ==
    << Message("system", "communicator", <<>>),
       Message("human", input, Context(tool_result)) >>

\* lines 166-199
QaMessagesEmptyContext(docs, history, input) ==
    <<Message("system", "qa", <<>>)>> \o history \o <<HumanMessage(input)>>

QaMessages(docs, history, input) ==
    <<Message("system", "qa", Context(docs))>> \o history
        \o <<HumanMessage(input)>>

\* lines 151-154, 203-206
ChunkText(chunk) == IF chunk.has_content THEN chunk.content ELSE chunk.repr

\* lines 209-212
DirectTextEmpty(resp) == ""

DirectText(resp) == IF resp.has_content THEN resp.content ELSE resp.repr

\* line 102
StoreMerged(before, tool_result) == before \o tool_result

StoreKept(before, tool_result) == before

StoreDocuments(before, tool_result) == tool_result

(***************************************************************************)
(* src/app.py: pure parts of main                                          *)
(***************************************************************************)
\* lines 29-31
Accumulate(acc, chunk) == IF chunk # "" THEN acc \o chunk ELSE acc

Render(shown, chunk) == IF chunk # "" THEN Append(shown, chunk) ELSE shown

\* lines 36-37
AppendExchangeSwapped(history, input, full) ==
    history \o <<AIMessage(full), HumanMessage(input)>>

AppendExchange(history, input, full) ==
    history \o <<HumanMessage(input), AIMessage(full)>>

\* lines 27-37 with the appends in a finally
HistoryRecordedOnRaise(history, input, full) ==
    history \o <<HumanMessage(input), AIMessage(full)>>

\* lines 27-37: an exception of the async for leaves main before lines 36-37
HistoryOnRaise(history, input, full) == history

(***************************************************************************)
(* src/src/agent.py: __init__                                              *)
(***************************************************************************)
\* lines 31-39 without the try: the failure of bind_tools leaves __init__
BindToolsNoFallback(tools, fails) ==
    [raised |-> tools # <<>> /\ fails,
     client |-> IF tools # <<>> /\ ~fails THEN "tooled" ELSE "plain"]

\* lines 31-39: the client of the decision calls
BindTools(tools, fails) ==
    [raised |-> FALSE,
     client |-> IF tools # <<>>
                THEN (IF fails THEN "plain" ELSE "tooled")
                ELSE "plain"]

(***************************************************************************)
(* The parts of the state a specification does not run                     *)
(***************************************************************************)
NoInput == [entry |-> "none", has_query |-> FALSE, query |-> "",
            has_max_results |-> FALSE, max_results |-> 0]

NoXml == [well_formed |-> FALSE, citation |-> "", abstract |-> ""]

NoFetched == [ok |-> TRUE, records |-> <<>>, err |-> ""]

NoResult == [raised |-> FALSE, value |-> <<>>, msg |-> ""]

FetchOff ==
    /\ r_pc = "off"
    /\ r_input = NoInput
    /\ r_ids = <<>>
    /\ r_i = 0
    /\ r_xml = NoXml
    /\ r_articles = <<>>
    /\ r_log = <<>>
    /\ r_fetched = NoFetched
    /\ r_result = NoResult
    /\ r_fragment = ""

NormOff ==
    /\ norm_pc = "off"
    /\ norm_raw = <<>>
    /\ norm_text = <<>>
    /\ norm_pass = 0
    /\ norm_first = <<>>

NoFields == [authors |-> <<>>, year |-> "", title |-> "", journal |-> "",
             volume |-> "", issue |-> "", pages |-> "", doi |-> ""]

ApaOff ==
    /\ apa_pc = "off"
    /\ apa_fields = NoFields
    /\ apa_citation = ""

YearOff ==
    /\ year_pc = "off"
    /\ pub_dates = <<>>
    /\ year_i = 0
    /\ year = ""

(***************************************************************************)
(* Initial state: start() has run                                          *)
(***************************************************************************)
OrchInit ==
    /\ documents = <<>>
    /\ tools_list \in ToolLists
    /\ bind_fails \in BOOLEAN
    /\ constructed = ~BindTools(tools_list, bind_fails).raised
    /\ llm_with_tools = BindTools(tools_list, bind_fails).client
    /\ invoke_client = "none"
    /\ chat_history = <<>>
    /\ pc = "idle"
    /\ user_input = ""
    /\ response = NoResponse
    /\ tc = 0
    /\ stream_messages = <<>>
    /\ n_chunks = 0
    /\ n_invocations = 0
    /\ chunks = <<>>
    /\ full_response = ""
    /\ rendered = <<>>
    /\ log = <<>>
    /\ invoke_messages = <<>>
    /\ invocations = <<>>
    /\ streamed = <<>>
    /\ outcome = "none"
    /\ docs_at_start = <<>>
    /\ history_at_start = <<>>
    /\ turns = 0

Init == OrchInit /\ FetchOff /\ NormOff /\ ApaOff /\ YearOff

(***************************************************************************)
(* Steps of a turn                                                         *)
(***************************************************************************)
\* a yield of the generator and main's loop body for it (app.py 28-31)
Yield(events, fragment) ==
    /\ chunks' = Append(chunks, fragment)
    /\ full_response' = Accumulate(full_response, fragment)
    /\ rendered' = Render(rendered, fragment)
    /\ log' = log \o events \o <<"yield">>

NoYield(events) ==
    /\ log' = log \o events
    /\ UNCHANGED <<chunks, full_response, rendered>>

\* line 86 leaving the loop after the first tool call
AfterCallStop(i) == "finish"

\* where the for loop of line 86 goes after tool call i
AfterCall(i) == IF i < Len(response.tool_calls) THEN "tool_loop" ELSE "finish"

\* app.py 19-28 and agent.py 52-81: a message arrives, astream builds the
\* decision messages and awaits ainvoke
OnMessage(m) ==
    /\ pc = "idle"
    /\ constructed
    /\ turns < MaxTurns
    /\ LET b == BuildDecision(chat_history, m)
       IN /\ invoke_messages' = b.messages
          /\ chat_history' = b.chat_history
    /\ user_input' = m
    /\ pc' = "deciding"
    /\ log' = <<"ainvoke">>
    /\ chunks' = <<>>
    /\ full_response' = ""
    /\ rendered' = <<>>
    /\ invocations' = <<>>
    /\ streamed' = <<>>
    /\ response' = NoResponse
    /\ tc' = 0
    /\ stream_messages' = <<>>
    /\ outcome' = "running"
    /\ docs_at_start' = documents
    /\ history_at_start' = chat_history
    /\ turns' = turns + 1
    /\ invoke_client' = llm_with_tools
    /\ UNCHANGED <<documents, llm_with_tools, n_chunks, n_invocations>>
    /\ UNCHANGED <<setup_vars, other_vars>>

\* line 81 raises: nothing in astream or main catches it
DecideRaises ==
    /\ pc = "deciding"
    /\ pc' = "idle"
    /\ outcome' = "raised"
    /\ NoYield(<<"ainvoke_raised">>)
    /\ chat_history' = HistoryOnRaise(chat_history, user_input, full_response)
    /\ UNCHANGED <<streamed, documents, llm_with_tools, n_invocations,
                   user_input, response, tc, stream_messages,
                   n_chunks, invoke_messages, invocations, docs_at_start,
                   history_at_start, turns>>
    /\ UNCHANGED <<setup_vars, invoke_client, other_vars>>

\* the tool calls of a response that name a registered tool
RegisteredCalls(resp) ==
    {i \in 1..Len(resp.tool_calls) :
        resp.tool_calls[i].name \in RegisteredTools}

\* only a client with the tool bound reports tool calls; the session's
\* adapter invocations stay within MaxInvocations
CanReturn(resp) ==
    HasToolCalls(resp) =>
        /\ llm_with_tools = "tooled"
        /\ n_invocations + Cardinality(RegisteredCalls(resp)) <= MaxInvocations

\* lines 81-86: the response carries tool calls
DecideToolCalls(resp) ==
    /\ pc = "deciding"
    /\ CanReturn(resp)
    /\ HasToolCalls(resp)
    /\ response' = resp
    /\ tc' = 1
    /\ pc' = "tool_loop"
    /\ NoYield(<<>>)
    /\ UNCHANGED <<streamed, documents, llm_with_tools, n_invocations,
                   chat_history, user_input, stream_messages, n_chunks,
                   invoke_messages, invocations, outcome, docs_at_start,
                   history_at_start, turns>>
    /\ UNCHANGED <<setup_vars, invoke_client, other_vars>>

\* lines 162-202: no tool call, stored documents: the Q&A stream is opened
DecideFollowUp(resp) ==
    /\ pc = "deciding"
    /\ CanReturn(resp)
    /\ ~HasToolCalls(resp)
    /\ documents # <<>>
    /\ response' = resp
    /\ stream_messages' = QaMessages(documents, chat_history, user_input)
    /\ pc' = "qa"
    /\ streamed' = <<>>
    /\ NoYield(<<"qa_stream">>)
    /\ UNCHANGED <<documents, llm_with_tools, n_invocations, chat_history,
                   user_input, tc, n_chunks, invoke_messages, invocations,
                   outcome, docs_at_start, history_at_start, turns>>
    /\ UNCHANGED <<setup_vars, invoke_client, other_vars>>

\* lines 207-212: no tool call, no documents: the response itself
DecideDirect(resp) ==
    /\ pc = "deciding"
    /\ CanReturn(resp)
    /\ ~HasToolCalls(resp)
    /\ documents = <<>>
    /\ response' = resp
    /\ pc' = "finish"
    /\ Yield(<<>>, DirectText(resp))
    /\ UNCHANGED <<streamed, documents, llm_with_tools, n_invocations,
                   chat_history, user_input, tc, stream_messages, n_chunks,
                   invoke_messages, invocations, outcome, docs_at_start,
                   history_at_start, turns>>
    /\ UNCHANGED <<setup_vars, invoke_client, other_vars>>

\* lines 86-90: a tool call that names no registered tool is passed over
SkipCall ==
    /\ pc = "tool_loop"
    /\ response.tool_calls[tc].name \notin RegisteredTools
    /\ pc' = AfterCall(tc)
    /\ tc' = tc + 1
    /\ NoYield(<<>>)
    /\ UNCHANGED <<streamed, documents, llm_with_tools, n_invocations,
                   chat_history, user_input, response, stream_messages,
                   n_chunks, invoke_messages, invocations, outcome,
                   docs_at_start, history_at_start, turns>>
    /\ UNCHANGED <<setup_vars, invoke_client, other_vars>>

\* lines 90-94
YieldProgress ==
    /\ pc = "tool_loop"
    /\ response.tool_calls[tc].name \in RegisteredTools
    /\ pc' = "invoking"
    /\ Yield(<<>>, ProgressFragment(ArgQuery(response.tool_calls[tc])))
    /\ UNCHANGED <<streamed, documents, llm_with_tools, n_invocations,
                   chat_history, user_input, response, tc, stream_messages,
                   n_chunks, invoke_messages, invocations, outcome,
                   docs_at_start, history_at_start, turns>>
    /\ UNCHANGED <<setup_vars, invoke_client, other_vars>>

\* lines 97-99: the invocation of tool call tc and what it came to
Invocation(result) ==
    [query |-> ArgQuery(response.tool_calls[tc]),
     max_results |-> ArgMaxResults(response.tool_calls[tc]),
     raised |-> result.raised, value |-> result.value, msg |-> result.msg]

\* lines 96-102 with the stored set dropped when the call is made
DocumentsReset(docs) == <<>>

\* lines 96-102, 160: the exception of lines 97-99 skips the assignment of
\* line 102
DocumentsOnRaise(docs) == docs

\* lines 96-99, 160-161: the adapter raises
InvokeRaises(fetched) ==
    /\ pc = "invoking"
    /\ search_pubmed_central(fetched).raised
    /\ invocations' =
           Append(invocations, Invocation(search_pubmed_central(fetched)))
    /\ n_invocations' = n_invocations + 1
    /\ pc' = AfterCall(tc)
    /\ tc' = tc + 1
    /\ Yield(<<"tool_invoke", "tool_raised">>,
             ErrorFragment(search_pubmed_central(fetched).msg))
    /\ documents' = DocumentsOnRaise(documents)
    /\ UNCHANGED <<streamed, llm_with_tools, chat_history,
                   user_input, response, stream_messages, n_chunks,
                   invoke_messages, outcome, docs_at_start, history_at_start,
                   turns>>
    /\ UNCHANGED <<setup_vars, invoke_client, other_vars>>

\* lines 96-104, 158-159: the adapter returns no record
InvokeEmpty(fetched) ==
    /\ pc = "invoking"
    /\ ~search_pubmed_central(fetched).raised
    /\ search_pubmed_central(fetched).value = <<>>
    /\ invocations' =
           Append(invocations, Invocation(search_pubmed_central(fetched)))
    /\ n_invocations' = n_invocations + 1
    /\ documents' =
           StoreDocuments(documents, search_pubmed_central(fetched).value)
    /\ pc' = AfterCall(tc)
    /\ tc' = tc + 1
    /\ Yield(<<"tool_invoke", "tool_returned", "store">>, NoArticlesFragment)
    /\ UNCHANGED <<streamed, llm_with_tools, chat_history, user_input,
                   response, stream_messages, n_chunks, invoke_messages,
                   outcome, docs_at_start, history_at_start, turns>>
    /\ UNCHANGED <<setup_vars, invoke_client, other_vars>>

\* lines 96-147: the adapter returns records
InvokeFound(fetched) ==
    /\ pc = "invoking"
    /\ ~search_pubmed_central(fetched).raised
    /\ search_pubmed_central(fetched).value # <<>>
    /\ invocations' =
           Append(invocations, Invocation(search_pubmed_central(fetched)))
    /\ n_invocations' = n_invocations + 1
    /\ documents' =
           StoreDocuments(documents, search_pubmed_central(fetched).value)
    /\ stream_messages' =
           SynthesisMessages(search_pubmed_central(fetched).value, user_input)
    /\ pc' = "found"
    /\ Yield(<<"tool_invoke", "tool_returned", "store">>,
             FoundFragment(Len(search_pubmed_central(fetched).value)))
    /\ UNCHANGED <<streamed, llm_with_tools, chat_history, user_input,
                   response, tc, n_chunks, invoke_messages, outcome,
                   docs_at_start, history_at_start, turns>>
    /\ UNCHANGED <<setup_vars, invoke_client, other_vars>>

\* line 150: the synthesis stream is opened
SynthStart ==
    /\ pc = "found"
    /\ pc' = "synth"
    /\ streamed' = <<>>
    /\ NoYield(<<"synth_stream">>)
    /\ UNCHANGED <<documents, llm_with_tools, n_invocations, chat_history,
                   user_input, response, tc, stream_messages, n_chunks,
                   invoke_messages, invocations, outcome, docs_at_start,
                   history_at_start, turns>>
    /\ UNCHANGED <<setup_vars, invoke_client, other_vars>>

\* lines 150-154
SynthChunk ==
    /\ pc = "synth"
    /\ n_chunks < MaxChunks
    /\ n_chunks' = n_chunks + 1
    /\ streamed' = Append(streamed, StreamChunk(n_chunks))
    /\ Yield(<<>>, ChunkText(StreamChunk(n_chunks)))
    /\ UNCHANGED <<documents, llm_with_tools, n_invocations, chat_history,
                   pc, user_input, response, tc, stream_messages,
                   invoke_messages, invocations, outcome, docs_at_start,
                   history_at_start, turns>>
    /\ UNCHANGED <<setup_vars, invoke_client, other_vars>>

\* lines 156-157: the stream is exhausted
SynthEnd ==
    /\ pc = "synth"
    /\ pc' = AfterCall(tc)
    /\ tc' = tc + 1
    /\ Yield(<<"stream_end">>, ClosingFragment)
    /\ UNCHANGED <<streamed, documents, llm_with_tools, n_invocations,
                   chat_history, user_input, response, stream_messages,
                   n_chunks, invoke_messages, invocations, outcome,
                   docs_at_start, history_at_start, turns>>
    /\ UNCHANGED <<setup_vars, invoke_client, other_vars>>

\* lines 150, 160-161: the synthesis stream raises inside the try
SynthRaises ==
    /\ pc = "synth"
    /\ pc' = AfterCall(tc)
    /\ tc' = tc + 1
    /\ Yield(<<"stream_raised">>, ErrorFragment(StreamError))
    /\ UNCHANGED <<streamed, documents, llm_with_tools, n_invocations,
                   chat_history, user_input, response, stream_messages,
                   n_chunks, invoke_messages, invocations, outcome,
                   docs_at_start, history_at_start, turns>>
    /\ UNCHANGED <<setup_vars, invoke_client, other_vars>>

\* lines 202-206
QaChunk ==
    /\ pc = "qa"
    /\ n_chunks < MaxChunks
    /\ n_chunks' = n_chunks + 1
    /\ streamed' = Append(streamed, StreamChunk(n_chunks))
    /\ Yield(<<>>, ChunkText(StreamChunk(n_chunks)))
    /\ UNCHANGED <<documents, llm_with_tools, n_invocations, chat_history,
                   pc, user_input, response, tc, stream_messages,
                   invoke_messages, invocations, outcome, docs_at_start,
                   history_at_start, turns>>
    /\ UNCHANGED <<setup_vars, invoke_client, other_vars>>

\* line 202: the Q&A stream is exhausted, and with it the generator
QaEnd ==
    /\ pc = "qa"
    /\ pc' = "finish"
    /\ NoYield(<<"stream_end">>)
    /\ UNCHANGED <<streamed, documents, llm_with_tools, n_invocations,
                   chat_history, user_input, response, tc, stream_messages,
                   n_chunks, invoke_messages, invocations, outcome,
                   docs_at_start, history_at_start, turns>>
    /\ UNCHANGED <<setup_vars, invoke_client, other_vars>>

\* line 202 raises: nothing in astream or main catches it
QaRaises ==
    /\ pc = "qa"
    /\ pc' = "idle"
    /\ outcome' = "raised"
    /\ NoYield(<<"stream_raised">>)
    /\ chat_history' = HistoryOnRaise(chat_history, user_input, full_response)
    /\ UNCHANGED <<streamed, documents, llm_with_tools, n_invocations,
                   user_input, response, tc, stream_messages,
                   n_chunks, invoke_messages, invocations, docs_at_start,
                   history_at_start, turns>>
    /\ UNCHANGED <<setup_vars, invoke_client, other_vars>>

\* app.py 33-38: the generator is exhausted, main records the exchange
Finish ==
    /\ pc = "finish"
    /\ chat_history' = AppendExchange(chat_history, user_input, full_response)
    /\ pc' = "idle"
    /\ outcome' = "completed"
    /\ UNCHANGED <<streamed, documents, llm_with_tools, n_invocations,
                   user_input, response, tc, stream_messages, n_chunks,
                   chunks, full_response, rendered, log, invoke_messages,
                   invocations, docs_at_start, history_at_start, turns>>
    /\ UNCHANGED <<setup_vars, invoke_client, other_vars>>

Next ==
    \/ \E m \in UserInputs : OnMessage(m)
    \/ DecideRaises
    \/ \E resp \in Responses : DecideToolCalls(resp)
    \/ \E resp \in Responses : DecideFollowUp(resp)
    \/ \E resp \in Responses : DecideDirect(resp)
    \/ SkipCall
    \/ YieldProgress
    \/ \E fetched \in FetchOutcomes : InvokeRaises(fetched)
    \/ \E fetched \in FetchOutcomes : InvokeEmpty(fetched)
    \/ \E fetched \in FetchOutcomes : InvokeFound(fetched)
    \/ SynthStart
    \/ SynthChunk
    \/ SynthEnd
    \/ SynthRaises
    \/ QaChunk
    \/ QaEnd
    \/ QaRaises
    \/ Finish

Spec == Init /\ [][Next]_vars

(***************************************************************************)
(* Reading the turn                                                        *)
(***************************************************************************)
\* the turn has run to its end: main returned or the exception left it
TurnOver == pc = "idle" /\ outcome \in {"completed", "raised"}

\* the decision call of the turn has returned
Decided == response # NoResponse

\* positions of an event in the log
At(ev) == {p \in DOMAIN log : log[p] = ev}

\* number of the fragment yielded at log position p
FragmentAt(p) == Cardinality({q \in 1..p : log[q] = "yield"})

\* number of the adapter invocation logged at position p
InvocationAt(p) == Cardinality({q \in 1..p : log[q] = "tool_invoke"})

LastOf(seq) == seq[Len(seq)]

\* result lists the adapter can return
ResultLists ==
    {search_pubmed_central(f).value : f \in {g \in FetchOutcomes : g.ok}}

(***************************************************************************)
(* C1: a retrieval that succeeds with zero records leaves                  *)
(* active_documents as it was before the turn.                             *)
(***************************************************************************)
C1_ZeroResultKeepsDocuments ==
    ( /\ invocations # <<>>
      /\ \A i \in DOMAIN invocations :
            ~invocations[i].raised /\ invocations[i].value = <<>> )
    => documents = docs_at_start

(***************************************************************************)
(* C2: after a retrieval that succeeds with at least one record,           *)
(* active_documents is exactly that call's result list, and at any time    *)
(* it is empty or the result list of one single call, never a merge.       *)
(***************************************************************************)
C2_ReplacedInFull ==
    /\ ( /\ invocations # <<>>
         /\ ~LastOf(invocations).raised
         /\ LastOf(invocations).value # <<>> )
       => documents = LastOf(invocations).value
    /\ documents \in ResultLists

C2_Witness ==
    /\ docs_at_start # <<>>
    /\ invocations # <<>>
    /\ ~LastOf(invocations).raised
    /\ LastOf(invocations).value # <<>>
    /\ LastOf(invocations).value # docs_at_start
    /\ documents = LastOf(invocations).value

(***************************************************************************)
(* C3: with active documents and no tool call in the decision response,    *)
(* the fragments are those of one streaming call whose prompt embeds       *)
(* every active document (then the history and the question), the          *)
(* adapter is not invoked and active_documents is unchanged.               *)
(***************************************************************************)
C3_FollowUpFromMemory ==
    (Decided /\ ~HasToolCalls(response) /\ docs_at_start # <<>>)
    => /\ Cardinality(At("qa_stream")) = 1
       /\ At("synth_stream") = {}
       /\ Len(stream_messages) = Len(history_at_start) + 2
       /\ stream_messages[1].role = "system"
       /\ Len(stream_messages[1].context) = Len(docs_at_start)
       /\ \A i \in DOMAIN docs_at_start :
             /\ stream_messages[1].context[i].n = i
             /\ stream_messages[1].context[i].pmcid = docs_at_start[i].pmcid
             /\ stream_messages[1].context[i].citation
                    = docs_at_start[i].citation
             /\ stream_messages[1].context[i].abstract
                    = docs_at_start[i].abstract
       /\ \A i \in DOMAIN history_at_start :
             stream_messages[i + 1] = history_at_start[i]
       /\ LastOf(stream_messages) = HumanMessage(user_input)
       /\ Len(chunks) = Len(streamed)
       /\ \A i \in DOMAIN chunks :
             chunks[i] = IF streamed[i].has_content
                         THEN streamed[i].content ELSE streamed[i].repr
       /\ \A i \in DOMAIN chunks : log[2 + i] = "yield"
       /\ At("tool_invoke") = {}
       /\ invocations = <<>>
       /\ documents = docs_at_start

C3_Witness ==
    /\ TurnOver
    /\ outcome = "completed"
    /\ Decided
    /\ ~HasToolCalls(response)
    /\ Len(docs_at_start) = 2
    /\ Len(chunks) = 2

(***************************************************************************)
(* C4: when the adapter raises, the turn emits the error fragment with     *)
(* the failure message and stops: nothing is logged after that fragment    *)
(* (no further fragment, adapter invocation or synthesis call).            *)
(***************************************************************************)
C4_RaiseEndsTurn ==
    \A p \in At("tool_raised") :
        /\ Len(log) = p + 1
        /\ log[p + 1] = "yield"
        /\ chunks[FragmentAt(p + 1)]
               = "Error: " \o invocations[InvocationAt(p)].msg

(***************************************************************************)
(* C5: no failure of the adapter or of the inference service raises to     *)
(* the consumer; a turn in which one happened ends with an error-marked    *)
(* fragment.                                                               *)
(***************************************************************************)
ErrorMarked(fragment) ==
    fragment \in {"Error: " \o m :
                    m \in {StreamError} \cup
                          {search_pubmed_central(f).msg : f \in FetchOutcomes}}

C5_FailuresEndInErrorFragment ==
    /\ outcome # "raised"
    /\ ( /\ TurnOver
         /\ At("ainvoke_raised") \cup At("tool_raised")
                \cup At("stream_raised") # {} )
       => (chunks # <<>> /\ ErrorMarked(LastOf(chunks)))

(***************************************************************************)
(* C6: with no tool call in the decision response and no active            *)
(* documents, the output is the one fragment holding the response's        *)
(* content; no other inference call, no retrieval, documents stay empty.   *)
(***************************************************************************)
C6_DirectAnswerVerbatim ==
    (Decided /\ ~HasToolCalls(response) /\ docs_at_start = <<>>)
    => /\ chunks = <<IF response.has_content
                     THEN response.content ELSE response.repr>>
       /\ log = <<"ainvoke", "yield">>
       /\ stream_messages = <<>>
       /\ invocations = <<>>
       /\ documents = <<>>

C6_Witness ==
    /\ TurnOver
    /\ outcome = "completed"
    /\ ~HasToolCalls(response)
    /\ docs_at_start = <<>>
    /\ response.content = "Hi"
    /\ chunks = <<"Hi">>

(***************************************************************************)
(* C7: the decision call is the first event of every turn and is issued    *)
(* once; its input is the system instruction, the history in its order,    *)
(* then the new user message.                                              *)
(***************************************************************************)
C7_DecisionCallOnceFirst ==
    outcome # "none"
    => /\ At("ainvoke") = {1}
       /\ Len(invoke_messages) = Len(history_at_start) + 2
       /\ invoke_messages[1].role = "system"
       /\ \A i \in DOMAIN history_at_start :
             invoke_messages[i + 1] = history_at_start[i]
       /\ LastOf(invoke_messages)
              = [role |-> "human", content |-> user_input, context |-> <<>>]

C7_Witness ==
    /\ Len(history_at_start) = 2
    /\ At("tool_invoke") # {}
    /\ At("synth_stream") # {}
    /\ Len(chunks) >= 3

(***************************************************************************)
(* C8: order of a retrieval that succeeds with records.                    *)
(***************************************************************************)
\* the progress fragment, naming the query, is yielded right before the
\* adapter is invoked
C8_ProgressBeforeInvoke ==
    \A p \in At("tool_invoke") :
        /\ p > 1
        /\ log[p - 1] = "yield"
        /\ chunks[FragmentAt(p - 1)]
               = "Searching **" \o invocations[InvocationAt(p)].query \o "**|"

\* active_documents holds the call's records before the synthesis stream is
\* opened and while it runs
C8_StoreBeforeSynthesis ==
    /\ \A q \in At("synth_stream") : q > 2 /\ log[q - 2] = "store"
    /\ pc \in {"found", "synth"}
       => /\ LastOf(invocations).value # <<>>
          /\ documents = LastOf(invocations).value

LastSynth == CHOOSE q \in At("synth_stream") :
                 \A r \in At("synth_stream") : r <= q

\* the fragments after the opening of the synthesis stream are the texts of
\* the chunks it produced, in the order it produced them
C8_SynthesisInOrder ==
    At("synth_stream") # {}
    => /\ FragmentAt(LastSynth) + Len(streamed) <= Len(chunks)
       /\ \A i \in DOMAIN streamed :
             /\ log[LastSynth + i] = "yield"
             /\ chunks[FragmentAt(LastSynth) + i]
                    = IF streamed[i].has_content
                      THEN streamed[i].content ELSE streamed[i].repr

\* a retrieval of the turn succeeded with at least one record
FoundSome ==
    \E i \in DOMAIN invocations :
        ~invocations[i].raised /\ invocations[i].value # <<>>

\* C8 as claimed: the closing invitation is the last fragment of the turn
C8_ClosingLastOfTurn ==
    /\ C8_ProgressBeforeInvoke
    /\ C8_StoreBeforeSynthesis
    /\ C8_SynthesisInOrder
    /\ (TurnOver /\ FoundSome)
       => LastOf(chunks) = "|Any other follow-up questions?"

LastInvoke == CHOOSE q \in At("tool_invoke") :
                  \A r \in At("tool_invoke") : r <= q

\* C8 as amended: the order above, and the closing invitation is the
\* fragment right after a synthesis stream that ran to its end; it is the
\* last fragment of the turn when that was the turn's last retrieval
C8_OrderOfRetrieval ==
    /\ C8_ProgressBeforeInvoke
    /\ C8_StoreBeforeSynthesis
    /\ C8_SynthesisInOrder
    /\ HasToolCalls(response)
       => \A p \in At("stream_end") :
             /\ Len(log) > p
             /\ log[p + 1] = "yield"
             /\ chunks[FragmentAt(p + 1)] = "|Any other follow-up questions?"
    /\ ( /\ TurnOver
         /\ HasToolCalls(response)
         /\ At("tool_invoke") # {}
         /\ \E p \in At("stream_end") : p > LastInvoke )
       => LastOf(chunks) = "|Any other follow-up questions?"

C8_Witness ==
    /\ TurnOver
    /\ outcome = "completed"
    /\ Len(invocations) = 1
    /\ Len(LastOf(invocations).value) = 2
    /\ Len(streamed) = 2
    /\ At("stream_end") # {}
    /\ Len(chunks) = 5

(***************************************************************************)
(* C9: astream leaves the history passed to it as it was, up to the end    *)
(* of the generator or the exception that leaves it.                       *)
(***************************************************************************)
C9_HistoryUntouchedByAstream ==
    (outcome \in {"running", "raised"}) => chat_history = history_at_start

C9_Witness ==
    /\ pc = "finish"
    /\ Len(history_at_start) = 2
    /\ At("qa_stream") # {}
    /\ Len(chunks) = 1
    /\ chat_history = history_at_start

(***************************************************************************)
(* C10: session history changes only by a completed turn appending the     *)
(* user message and then the assistant message, the concatenation of the   *)
(* turn's non-empty fragments in emission order.                           *)
(***************************************************************************)
RECURSIVE JoinNonEmpty(_)
JoinNonEmpty(seq) ==
    IF seq = <<>> THEN ""
    ELSE IF Head(seq) = "" THEN JoinNonEmpty(Tail(seq))
    ELSE Head(seq) \o JoinNonEmpty(Tail(seq))

C10_Step ==
    /\ \/ chat_history' = chat_history
       \/ /\ pc = "finish"
          /\ chat_history' = chat_history \o
                << [role |-> "human", content |-> user_input,
                    context |-> <<>>],
                   [role |-> "ai", content |-> JoinNonEmpty(chunks),
                    context |-> <<>>] >>
    /\ (pc = "finish" /\ pc' = "idle")
       => Len(chat_history') = Len(chat_history) + 2

C10_HistoryAppendOnly == [][C10_Step]_vars

C10_Witness ==
    /\ TurnOver
    /\ Len(chat_history) = 4
    /\ chat_history[2].content = ""
    /\ Len(chunks) >= 3
    /\ chat_history[4].content = JoinNonEmpty(chunks)

(***************************************************************************)
(* One retrieval: agent.py lines 91-99 or a direct invoke of the adapter,  *)
(* tools.py, fetch_pmc_records of pmc_endpoint.py and the repository       *)
(***************************************************************************)
MaxIds == 3

\* identifiers the repository search can return
Pmcids == {"PMC" \o ToString(i) : i \in 1..MaxIds}

RECURSIVE DistinctSeqs(_, _)
\* the sequences of at most n distinct members of S
DistinctSeqs(S, n) ==
    IF n = 0
    THEN {<<>>}
    ELSE {<<>>} \cup
         { <<x>> \o rest : x \in S, rest \in DistinctSeqs(S, n - 1) }

NoRepeat(seq) == \A a, b \in DOMAIN seq : a # b => seq[a] # seq[b]

IdLists == { l \in DistinctSeqs(Pmcids, MaxIds) : NoRepeat(l) }

\* what Entrez.read gives for the search: a record with or without IdList
SearchRecords ==
    { [has_idlist |-> TRUE, ids |-> l] : l \in IdLists }
    \cup { [has_idlist |-> FALSE, ids |-> <<>>] }

\* what handle.read() gives for one article: XML that parses to a citation
\* and an abstract, or XML that ET.fromstring rejects
XmlDocs ==
    { [well_formed |-> TRUE, citation |-> "Cit", abstract |-> "Abs"],
      [well_formed |-> TRUE, citation |-> "Cit", abstract |-> ""],
      NoXml }

RepositoryError == "Network error"
ParseError == "syntax error"

\* the ways a retrieval starts: a tool call of the decision response, or
\* the adapter invoked with or without max_results
FetchInputs ==
    { [entry |-> "orchestrator", has_query |-> TRUE, query |-> "flu",
       has_max_results |-> h, max_results |-> IF h THEN n ELSE 0]
         : h \in BOOLEAN, n \in {1, 2} }
    \cup
    { [entry |-> "adapter", has_query |-> TRUE, query |-> "flu",
       has_max_results |-> h, max_results |-> IF h THEN n ELSE 0]
         : h \in BOOLEAN, n \in {1, 2} }

\* a call or a return, as it is written to r_log
Logged(op, id, n) == [op |-> op, id |-> id, n |-> n]

\* tools.py line 9: max_results as the adapter body sees it
AdapterDefaultMaxResults == 3

AdapterMaxResults(args) ==
    IF args.has_max_results THEN args.max_results
    ELSE AdapterDefaultMaxResults

\* pmc_endpoint.py line 25 with a default that is not empty
IdListOrFirst(record) ==
    IF record.has_idlist /\ record.ids # <<>> THEN record.ids ELSE <<"PMC1">>

\* pmc_endpoint.py line 25
IdList(record) == IF record.has_idlist THEN record.ids ELSE <<>>

\* pmc_endpoint.py line 116: the record built from one article
ParseArticle(xml, pmcid) ==
    [pmcid |-> pmcid, apa_citation |-> xml.citation,
     abstract |-> xml.abstract]

\* pmc_endpoint.py line 41 building the list from the front
PrependArticle(articles, article) == <<article>> \o articles

\* pmc_endpoint.py line 41
AppendArticle(articles, article) == Append(articles, article)

\* pmc_endpoint.py lines 33-41 with the failing article skipped
ReturnPartial(articles, err) ==
    [ok |-> TRUE, records |-> articles, err |-> ""]

\* pmc_endpoint.py lines 33-41: nothing catches what efetch, read or
\* ET.fromstring raise, so fetch_pmc_records ends with that exception
RaiseFromLoop(articles, err) ==
    [ok |-> FALSE, records |-> <<>>, err |-> err]

\* the chat of app.py constructed and waiting, while a retrieval, a
\* normalizer run or a formatter call is followed on its own
OrchIdle == OrchInit /\ tools_list = <<ToolName>> /\ ~bind_fails

InitFetch ==
    /\ OrchIdle /\ NormOff /\ ApaOff /\ YearOff
    /\ r_pc = "start"
    /\ r_input \in FetchInputs
    /\ r_ids = <<>>
    /\ r_i = 0
    /\ r_xml = NoXml
    /\ r_articles = <<>>
    /\ r_log = <<>>
    /\ r_fetched = NoFetched
    /\ r_result = NoResult
    /\ r_fragment = ""

not_fetch_vars == <<orch_vars, norm_vars, apa_vars, year_vars>>

\* the limit the last logged call of that kind carried
LastLogged == r_log[Len(r_log)]

\* agent.py lines 91-99: the orchestrator invokes the adapter for a tool call
OrchestratorInvokes ==
    /\ r_pc = "start"
    /\ r_input.entry = "orchestrator"
    /\ r_log' = Append(r_log, Logged("invoke", ArgQuery(r_input),
                                     ArgMaxResults(r_input)))
    /\ r_pc' = "adapter"
    /\ UNCHANGED <<r_input, r_ids, r_i, r_xml, r_articles, r_fetched,
                   r_result, r_fragment, not_fetch_vars>>

\* tools.py line 9: the adapter is invoked by another caller, with or
\* without max_results
AdapterInvoked ==
    /\ r_pc = "start"
    /\ r_input.entry = "adapter"
    /\ r_log' = Append(r_log, Logged("invoke", r_input.query,
                                     AdapterMaxResults(r_input)))
    /\ r_pc' = "adapter"
    /\ UNCHANGED <<r_input, r_ids, r_i, r_xml, r_articles, r_fetched,
                   r_result, r_fragment, not_fetch_vars>>

\* tools.py line 21
AdapterCallsExtractor ==
    /\ r_pc = "adapter"
    /\ r_log' = Append(r_log, Logged("fetch_pmc_records", LastLogged.id,
                                     LastLogged.n))
    /\ r_pc' = "extractor"
    /\ UNCHANGED <<r_input, r_ids, r_i, r_xml, r_articles, r_fetched,
                   r_result, r_fragment, not_fetch_vars>>

\* pmc_endpoint.py lines 29, 22: the search call is issued
EsearchCall ==
    /\ r_pc = "extractor"
    /\ r_log' = Append(r_log, Logged("esearch", LastLogged.id, LastLogged.n))
    /\ r_pc' = "esearch"
    /\ UNCHANGED <<r_input, r_ids, r_i, r_xml, r_articles, r_fetched,
                   r_result, r_fragment, not_fetch_vars>>

\* pmc_endpoint.py lines 23-25, 30: the search returns at most retmax
\* identifiers
EsearchReturns(record) ==
    /\ r_pc = "esearch"
    /\ Len(record.ids) <= LastLogged.n
    /\ r_ids' = IdList(record)
    /\ r_articles' = <<>>
    /\ r_log' = Append(r_log, Logged("esearch_returned", "",
                                     Len(record.ids)))
    /\ r_pc' = "loop"
    /\ UNCHANGED <<r_input, r_i, r_xml, r_fetched, r_result, r_fragment,
                   not_fetch_vars>>

\* pmc_endpoint.py lines 22-23: the search call or its read raises
EsearchRaises ==
    /\ r_pc = "esearch"
    /\ r_fetched' = [ok |-> FALSE, records |-> <<>>, err |-> RepositoryError]
    /\ r_log' = Append(r_log, Logged("esearch_raised", "", 0))
    /\ r_pc' = "ended"
    /\ UNCHANGED <<r_input, r_ids, r_i, r_xml, r_articles, r_result,
                   r_fragment, not_fetch_vars>>

\* pmc_endpoint.py lines 33-36: the fetch call for the next identifier
EfetchCall ==
    /\ r_pc = "loop"
    /\ r_i < Len(r_ids)
    /\ r_log' = Append(r_log, Logged("efetch", r_ids[r_i + 1], 0))
    /\ r_pc' = "efetch"
    /\ UNCHANGED <<r_input, r_ids, r_i, r_xml, r_articles, r_fetched,
                   r_result, r_fragment, not_fetch_vars>>

\* pmc_endpoint.py lines 37-38: the XML of the article is returned
EfetchReturns(xml) ==
    /\ r_pc = "efetch"
    /\ r_xml' = xml
    /\ r_log' = Append(r_log, Logged("efetch_returned", r_ids[r_i + 1], 0))
    /\ r_pc' = "parse"
    /\ UNCHANGED <<r_input, r_ids, r_i, r_articles, r_fetched, r_result,
                   r_fragment, not_fetch_vars>>

\* pmc_endpoint.py lines 34-37: the fetch call or its read raises
EfetchRaises ==
    /\ r_pc = "efetch"
    /\ r_fetched' = RaiseFromLoop(r_articles, RepositoryError)
    /\ r_log' = Append(r_log, Logged("efetch_raised", r_ids[r_i + 1], 0))
    /\ r_pc' = "ended"
    /\ UNCHANGED <<r_input, r_ids, r_i, r_xml, r_articles, r_result,
                   r_fragment, not_fetch_vars>>

\* pmc_endpoint.py lines 40-41: the article is parsed and appended
ParseReturns ==
    /\ r_pc = "parse"
    /\ r_xml.well_formed
    /\ r_articles' =
           AppendArticle(r_articles, ParseArticle(r_xml, r_ids[r_i + 1]))
    /\ r_i' = r_i + 1
    /\ r_log' = Append(r_log, Logged("parsed", r_ids[r_i + 1], 0))
    /\ r_pc' = "loop"
    /\ UNCHANGED <<r_input, r_ids, r_xml, r_fetched, r_result, r_fragment,
                   not_fetch_vars>>

\* pmc_endpoint.py line 40: ET.fromstring raises
ParseRaises ==
    /\ r_pc = "parse"
    /\ ~r_xml.well_formed
    /\ r_fetched' = RaiseFromLoop(r_articles, ParseError)
    /\ r_log' = Append(r_log, Logged("parse_raised", r_ids[r_i + 1], 0))
    /\ r_pc' = "ended"
    /\ UNCHANGED <<r_input, r_ids, r_i, r_xml, r_articles, r_result,
                   r_fragment, not_fetch_vars>>

\* pmc_endpoint.py lines 33, 43: the loop is over, the list is returned
ExtractorReturns ==
    /\ r_pc = "loop"
    /\ ~(r_i < Len(r_ids))
    /\ r_fetched' = [ok |-> TRUE, records |-> r_articles, err |-> ""]
    /\ r_pc' = "ended"
    /\ UNCHANGED <<r_input, r_ids, r_i, r_xml, r_articles, r_log, r_result,
                   r_fragment, not_fetch_vars>>

\* tools.py lines 23-35: the adapter returns documents or raises
AdapterEnds ==
    /\ r_pc = "ended"
    /\ r_result' = search_pubmed_central(r_fetched)
    /\ r_pc' = "adapter_ended"
    /\ UNCHANGED <<r_input, r_ids, r_i, r_xml, r_articles, r_log, r_fetched,
                   r_fragment, not_fetch_vars>>

\* agent.py lines 147, 159, 161: the fragment the orchestrator yields next
OrchestratorYields ==
    /\ r_pc = "adapter_ended"
    /\ r_input.entry = "orchestrator"
    /\ r_fragment' = IF r_result.raised THEN ErrorFragment(r_result.msg)
                     ELSE IF r_result.value # <<>>
                          THEN FoundFragment(Len(r_result.value))
                          ELSE NoArticlesFragment
    /\ r_pc' = "yielded"
    /\ UNCHANGED <<r_input, r_ids, r_i, r_xml, r_articles, r_log, r_fetched,
                   r_result, not_fetch_vars>>

NextFetch ==
    \/ OrchestratorInvokes
    \/ AdapterInvoked
    \/ AdapterCallsExtractor
    \/ EsearchCall
    \/ \E record \in SearchRecords : EsearchReturns(record)
    \/ EsearchRaises
    \/ EfetchCall
    \/ \E xml \in XmlDocs : EfetchReturns(xml)
    \/ EfetchRaises
    \/ ParseReturns
    \/ ParseRaises
    \/ ExtractorReturns
    \/ AdapterEnds
    \/ OrchestratorYields

SpecFetch == InitFetch /\ [][NextFetch]_vars

(***************************************************************************)
(* Reading r_log                                                           *)
(***************************************************************************)
\* positions of r_log holding a call or return of that kind
Ops(op) == {p \in DOMAIN r_log : r_log[p].op = op}

\* fetch_pmc_records has returned or raised
ExtractorEnded == r_pc \in {"ended", "adapter_ended", "yielded"}

\* the search of this retrieval returned, and with no identifier
SearchReturnedEmpty ==
    \E p \in Ops("esearch_returned") : r_log[p].n = 0

(***************************************************************************)
(* C11: when the repository search returns an empty identifier list,       *)
(* fetch_pmc_records issues no fetch call and no parse, and what it        *)
(* returns is the empty record list.                                       *)
(***************************************************************************)
C11_EmptyIdListNoFetch ==
    SearchReturnedEmpty =>
        /\ Ops("efetch") = {}
        /\ Ops("efetch_returned") = {}
        /\ Ops("parsed") = {}
        /\ Ops("parse_raised") = {}
        /\ r_pc \notin {"efetch", "parse"}
        /\ ExtractorEnded => r_fetched.ok /\ r_fetched.records = <<>>

C11_Witness ==
    /\ SearchReturnedEmpty
    /\ ExtractorEnded
    /\ r_fetched = [ok |-> TRUE, records |-> <<>>, err |-> ""]

\* the position of the k-th call or return of that kind in r_log
Nth(op, k) ==
    CHOOSE p \in Ops(op) : Cardinality({q \in Ops(op) : q < p}) = k - 1

Count(op) == Cardinality(Ops(op))

\* repository calls issued and not yet returned or raised
Outstanding ==
    (Count("esearch") - Count("esearch_returned") - Count("esearch_raised"))
    + (Count("efetch") - Count("efetch_returned") - Count("efetch_raised"))

\* the k-th fetch call is for the k-th identifier, and is issued after the
\* XML of the identifier before it was returned and then parsed
FetchInTurn(k) ==
    /\ k <= Len(r_ids)
    /\ r_log[Nth("efetch", k)].id = r_ids[k]
    /\ Nth("esearch_returned", 1) < Nth("efetch", k)
    /\ k > 1 =>
        /\ Count("efetch_returned") >= k - 1
        /\ Count("parsed") >= k - 1
        /\ Nth("efetch", k - 1) < Nth("efetch_returned", k - 1)
        /\ Nth("efetch_returned", k - 1) < Nth("parsed", k - 1)
        /\ Nth("parsed", k - 1) < Nth("efetch", k)

(***************************************************************************)
(* C12: fetch_pmc_records issues one search call, carrying the limit and   *)
(* the query of its caller, then the fetch calls one at a time in the      *)
(* order of the identifiers, each after the XML of the identifier before   *)
(* it was returned and parsed, with never more than one repository call    *)
(* outstanding; when it returns, it has issued one fetch call for each     *)
(* identifier and returns one record for each identifier, in that order,   *)
(* with the identifier as its pmcid.                                       *)
(***************************************************************************)
C12_SequentialFetch ==
    /\ Count("esearch") <= 1
    /\ Outstanding \in {0, 1}
    /\ \A p \in Ops("esearch") :
           /\ Count("fetch_pmc_records") = 1
           /\ r_log[p].n = r_log[Nth("fetch_pmc_records", 1)].n
           /\ r_log[p].id = r_log[Nth("fetch_pmc_records", 1)].id
    /\ \A k \in 1..Count("efetch") : FetchInTurn(k)
    /\ (ExtractorEnded /\ r_fetched.ok) =>
        /\ Count("esearch") = 1
        /\ Count("efetch") = Len(r_ids)
        /\ Count("parsed") = Len(r_ids)
        /\ Outstanding = 0
        /\ Len(r_fetched.records) = Len(r_ids)
        /\ \A k \in DOMAIN r_ids : r_fetched.records[k].pmcid = r_ids[k]

C12_Witness ==
    /\ ExtractorEnded
    /\ r_fetched.ok
    /\ Len(r_ids) >= 2
    /\ Len(r_fetched.records) = Len(r_ids)
    /\ Count("efetch") = Len(r_ids)

\* the fetch or the parse of an article failed
ArticleFailed == Count("efetch_raised") + Count("parse_raised") > 0

\* the error fetch_pmc_records is left with
ArticleError ==
    IF Count("parse_raised") > 0 THEN ParseError ELSE RepositoryError

(***************************************************************************)
(* C13: when the fetch or the parse of one article fails,                  *)
(* fetch_pmc_records ends by raising that error: it returns no record      *)
(* list, the records built for the identifiers before are not handed out,  *)
(* and no fetch call is issued for the identifiers after the failing one.  *)
(***************************************************************************)
C13_ArticleFailureFailsCall ==
    ArticleFailed =>
        /\ ExtractorEnded
        /\ ~r_fetched.ok
        /\ r_fetched.records = <<>>
        /\ r_fetched.err = ArticleError
        /\ r_log[Len(r_log)].op \in {"efetch_raised", "parse_raised"}
        /\ r_log[Len(r_log)].id = r_ids[r_i + 1]
        /\ Count("efetch") = r_i + 1
        /\ Count("efetch_raised") + Count("parse_raised") = 1

C13_Witness ==
    /\ ArticleFailed
    /\ ExtractorEnded
    /\ r_articles # <<>>
    /\ r_i + 1 < Len(r_ids)
    /\ ~r_fetched.ok

\* search_pubmed_central has returned or raised
AdapterEnded == r_pc \in {"adapter_ended", "yielded"}

(***************************************************************************)
(* C14: when fetch_pmc_records fails inside search_pubmed_central, the     *)
(* adapter raises an error whose message is 'Error searching PubMed        *)
(* Central: ' followed by the message of the failure, it returns no        *)
(* record list, and the error fragment of the orchestrator carries that    *)
(* message.                                                                *)
(***************************************************************************)
C14_AdapterWrapsFailure ==
    (AdapterEnded /\ ~r_fetched.ok) =>
        /\ r_result.raised
        /\ r_result.value = <<>>
        /\ r_result.msg = "Error searching PubMed Central: " \o r_fetched.err
        /\ r_fetched.err \in {RepositoryError, ParseError}
        /\ r_pc = "yielded" =>
               r_fragment = "Error: Error searching PubMed Central: "
                                \o r_fetched.err

C14_Witness ==
    /\ r_pc = "yielded"
    /\ ~r_fetched.ok
    /\ r_result.raised
    /\ r_fragment = "Error: Error searching PubMed Central: Network error"

(***************************************************************************)
(* C15: when fetch_pmc_records returns, the adapter returns a list of the  *)
(* same length and order, each element with exactly the keys pmcid,        *)
(* citation and abstract, holding the pmcid, the apa_citation and the      *)
(* abstract of the record at that place.                                   *)
(***************************************************************************)
C15_AdapterSchema ==
    (AdapterEnded /\ r_fetched.ok) =>
        /\ ~r_result.raised
        /\ Len(r_result.value) = Len(r_fetched.records)
        /\ \A k \in DOMAIN r_fetched.records :
               /\ DOMAIN r_result.value[k] = {"pmcid", "citation", "abstract"}
               /\ r_result.value[k].pmcid = r_fetched.records[k].pmcid
               /\ r_result.value[k].citation =
                      r_fetched.records[k].apa_citation
               /\ r_result.value[k].abstract = r_fetched.records[k].abstract

C15_Witness ==
    /\ AdapterEnded
    /\ r_fetched.ok
    /\ Len(r_fetched.records) >= 2
    /\ Len(r_result.value) = Len(r_fetched.records)
    /\ r_result.value[1].pmcid # r_result.value[2].pmcid
    /\ r_result.value[1].abstract # r_result.value[2].abstract

\* the limit of the retrieval: the one supplied, or 3
SuppliedOrThree ==
    IF r_input.has_max_results THEN r_input.max_results ELSE 3

(***************************************************************************)
(* C16: a tool call without max_results makes the orchestrator invoke the  *)
(* adapter with max_results = 3, an adapter invoked without max_results    *)
(* calls fetch_pmc_records with retmax = 3, and a supplied max_results is  *)
(* the limit of the adapter invocation, of the fetch_pmc_records call and  *)
(* of the repository search call.                                          *)
(***************************************************************************)
C16_LimitDefaultsToThree ==
    /\ \A p \in Ops("invoke") : r_log[p].n = SuppliedOrThree
    /\ \A p \in Ops("fetch_pmc_records") : r_log[p].n = SuppliedOrThree
    /\ \A p \in Ops("esearch") : r_log[p].n = SuppliedOrThree
    /\ r_pc \notin {"start", "adapter", "extractor"} =>
           /\ Count("invoke") = 1
           /\ Count("fetch_pmc_records") = 1
           /\ Count("esearch") = 1

C16_Witness ==
    /\ r_input.entry = "orchestrator"
    /\ ~r_input.has_max_results
    /\ Count("esearch") = 1
    /\ r_log[Nth("invoke", 1)].n = 3
    /\ r_log[Nth("esearch", 1)].n = 3
    /\ Len(r_ids) = 3

(***************************************************************************)
(* C17: when bind_tools raises in __init__, the agent is constructed all   *)
(* the same and every decision call goes to the client without tools;     *)
(* when bind_tools returns, the decision client is the client with the    *)
(* tools bound; when no tools are given, it is the plain client.           *)
(***************************************************************************)
C17_BindFallback ==
    /\ constructed
    /\ (tools_list # <<>> /\ bind_fails) => llm_with_tools = "plain"
    /\ (tools_list # <<>> /\ ~bind_fails) => llm_with_tools = "tooled"
    /\ tools_list = <<>> => llm_with_tools = "plain"
    /\ turns = 0 => invoke_client = "none"
    /\ turns > 0 => invoke_client = llm_with_tools

C17_Witness ==
    /\ tools_list # <<>>
    /\ bind_fails
    /\ constructed
    /\ turns = MaxTurns
    /\ invoke_client = "plain"
    /\ outcome = "completed"

(***************************************************************************)
(* src/src/pmc_endpoint.py: _clean_abstract, on texts cut into tokens.     *)
(* A token is one character (space, tab, newline, colon, the digit 2) or   *)
(* a word the patterns look for: "SO", a header label in two cases, and    *)
(* "SO_2" for SO with the subscript 2 that line 127 writes.                *)
(***************************************************************************)
MaxLen == 5

NormTokens == {" ", "\t", "\n", ":", "2", "SO", "Methods", "methods"}

\* raw abstracts of at most MaxLen tokens
RawAbstracts == UNION { [1..n -> NormTokens] : n \in 0..MaxLen }

\* what \s matches
IsSpace(tok) == tok \in {" ", "\t", "\n"}

\* tokens that begin and end with a \w character: no \b between two of them
IsWord(tok) == tok \in {"2", "SO", "SO_2", "Methods", "methods"}

\* lines 130-137
Headers == <<"Objective", "Impact Statement", "Introduction", "Methods",
             "Results", "Conclusion">>

\* re.IGNORECASE on the words of the token set
Folded(tok) == IF tok = "Methods" THEN "methods" ELSE tok

\* the first position from i on that holds no whitespace
RunEnd(text, i) ==
    CHOOSE j \in i..(Len(text) + 1) :
        /\ \A k \in i..(j - 1) : IsSpace(text[k])
        /\ j = Len(text) + 1 \/ ~IsSpace(text[j])

\* the first position from i on that holds neither space nor tab
BlankEnd(text, i) ==
    CHOOSE j \in i..(Len(text) + 1) :
        /\ \A k \in i..(j - 1) : text[k] \in {" ", "\t"}
        /\ j = Len(text) + 1 \/ text[j] \notin {" ", "\t"}

SetMax(S) == CHOOSE x \in S : \A y \in S : y <= x

RECURSIVE BlankLinesFrom(_, _)
\* line 123 from position i on: a newline, whitespace and a last newline
\* become two newlines
BlankLinesFrom(text, i) ==
    IF i > Len(text)
    THEN <<>>
    ELSE LET later == {k \in (i + 1)..(RunEnd(text, i + 1) - 1) :
                          text[k] = "\n"}
         IN IF text[i] = "\n" /\ later # {}
            THEN <<"\n", "\n">> \o BlankLinesFrom(text, SetMax(later) + 1)
            ELSE <<text[i]>> \o BlankLinesFrom(text, i + 1)

\* line 123: re.sub(r"\n\s*\n+", "\n\n", text)
CollapseBlankLines(text) == BlankLinesFrom(text, 1)

RECURSIVE SpacesFrom(_, _)
\* line 124 from position i on
SpacesFrom(text, i) ==
    IF i > Len(text)
    THEN <<>>
    ELSE IF text[i] \in {" ", "\t"}
         THEN <<" ">> \o SpacesFrom(text, BlankEnd(text, i))
         ELSE <<text[i]>> \o SpacesFrom(text, i + 1)

\* line 124: re.sub(r"[ \t]+", " ", text)
CollapseSpaces(text) == SpacesFrom(text, 1)

RECURSIVE NotationFrom(_, _)
\* line 127 from position i on
NotationFrom(text, i) ==
    IF i > Len(text)
    THEN <<>>
    ELSE LET j == RunEnd(text, i + 1)
         IN IF text[i] = "SO" /\ j <= Len(text) /\ text[j] = "2"
            THEN <<"SO_2">> \o NotationFrom(text, j + 1)
            ELSE <<text[i]>> \o NotationFrom(text, i + 1)

\* line 127: re.sub(r"SO\s*2", "SO_2", text)
RepairNotation(text) == NotationFrom(text, 1)

\* \b{h}: matches at position i
HeaderAt(text, h, i) ==
    /\ Folded(text[i]) = Folded(h)
    /\ i = 1 \/ ~IsWord(text[i - 1])
    /\ i + 1 <= Len(text)
    /\ text[i + 1] = ":"

RECURSIVE HeaderFrom(_, _, _)
\* line 140 from position i on
HeaderFrom(text, h, i) ==
    IF i > Len(text)
    THEN <<>>
    ELSE IF HeaderAt(text, h, i)
         THEN <<"\n", "\n", h, ":", " ">>
                  \o HeaderFrom(text, h, RunEnd(text, i + 2))
         ELSE <<text[i]>> \o HeaderFrom(text, h, i + 1)

\* line 140: re.sub(rf"\b{h}:\s*", f"\n\n{h}: ", text, flags=re.IGNORECASE)
InsertHeader(text, h) == HeaderFrom(text, h, 1)

RECURSIVE InsertHeadersFrom(_, _)
\* lines 139-140 from the n-th header on
InsertHeadersFrom(text, n) ==
    IF n > Len(Headers)
    THEN text
    ELSE InsertHeadersFrom(InsertHeader(text, Headers[n]), n + 1)

\* lines 139-140
InsertHeaders(text) == InsertHeadersFrom(text, 1)

\* line 142: text.strip()
Strip(text) ==
    LET inner == {k \in DOMAIN text : ~IsSpace(text[k])}
    IN IF inner = {}
       THEN <<>>
       ELSE SubSeq(text, CHOOSE a \in inner : \A b \in inner : a <= b,
                   SetMax(inner))

\* lines 119-145
clean_abstract(raw_abstract) ==
    Strip(InsertHeaders(RepairNotation(CollapseSpaces(
        CollapseBlankLines(raw_abstract)))))

InitNorm ==
    /\ OrchIdle /\ FetchOff /\ ApaOff /\ YearOff
    /\ norm_pc = "blank_lines"
    /\ norm_raw \in RawAbstracts
    /\ norm_text = norm_raw
    /\ norm_pass = 1
    /\ norm_first = <<>>

not_norm_vars == <<orch_vars, fetch_vars, apa_vars, year_vars>>

\* line 123
NormBlankLines ==
    /\ norm_pc = "blank_lines"
    /\ norm_text' = CollapseBlankLines(norm_text)
    /\ norm_pc' = "spaces"
    /\ UNCHANGED <<norm_raw, norm_pass, norm_first, not_norm_vars>>

\* line 124
NormSpaces ==
    /\ norm_pc = "spaces"
    /\ norm_text' = CollapseSpaces(norm_text)
    /\ norm_pc' = "notation"
    /\ UNCHANGED <<norm_raw, norm_pass, norm_first, not_norm_vars>>

\* line 127
NormNotation ==
    /\ norm_pc = "notation"
    /\ norm_text' = RepairNotation(norm_text)
    /\ norm_pc' = "headers"
    /\ UNCHANGED <<norm_raw, norm_pass, norm_first, not_norm_vars>>

\* lines 139-140
NormHeaders ==
    /\ norm_pc = "headers"
    /\ norm_text' = InsertHeaders(norm_text)
    /\ norm_pc' = "strip"
    /\ UNCHANGED <<norm_raw, norm_pass, norm_first, not_norm_vars>>

\* lines 142-144: the normalized abstract is returned
NormReturns ==
    /\ norm_pc = "strip"
    /\ norm_text' = Strip(norm_text)
    /\ norm_first' = IF norm_pass = 1 THEN Strip(norm_text) ELSE norm_first
    /\ norm_pc' = "returned"
    /\ UNCHANGED <<norm_raw, norm_pass, not_norm_vars>>

\* _clean_abstract is called once more, on what it returned
NormAgain ==
    /\ norm_pc = "returned"
    /\ norm_pass = 1
    /\ norm_pass' = 2
    /\ norm_pc' = "blank_lines"
    /\ UNCHANGED <<norm_raw, norm_text, norm_first, not_norm_vars>>

NextNorm ==
    \/ NormBlankLines
    \/ NormSpaces
    \/ NormNotation
    \/ NormHeaders
    \/ NormReturns
    \/ NormAgain

SpecNorm == InitNorm /\ [][NextNorm]_vars

\* some k consecutive tokens of the text are all tok
HasRun(text, tok, k) ==
    \E i \in 1..(Len(text) - k + 1) : \A j \in i..(i + k - 1) : text[j] = tok

(***************************************************************************)
(* C18: _clean_abstract is idempotent: applied to what it returned, it     *)
(* returns the same text.                                                  *)
(***************************************************************************)
C18_Idempotent ==
    (norm_pc = "returned" /\ norm_pass = 2) => norm_text = norm_first

(***************************************************************************)
(* C19: what _clean_abstract returns holds no run of three blank lines     *)
(* (four newlines in a row) and no two spaces in a row.                    *)
(***************************************************************************)
C19_NoLongRuns ==
    norm_pc = "returned" =>
        /\ ~HasRun(norm_text, "\n", 4)
        /\ ~HasRun(norm_text, " ", 2)

(***************************************************************************)
(* src/src/pmc_endpoint.py: _format_apa                                    *)
(***************************************************************************)
MaxAuthors == 3

AuthorNames == {"Doe, A.", "Smith, J."}

AuthorLists == UNION { [1..n -> AuthorNames] : n \in 0..MaxAuthors }

\* the arguments of _format_apa: every field but title and journal can be
\* the empty string _parse_article defaults to
ApaFields ==
    [authors : AuthorLists, year : {"", "2020"}, title : {"T"},
     journal : {"J"}, volume : {"", "12"}, issue : {"", "3"},
     pages : {"", "1-9"}, doi : {"", "10.1/x"}]

RECURSIVE JoinWith(_, _)
\* sep.join(seq)
JoinWith(sep, seq) ==
    IF seq = <<>>
    THEN ""
    ELSE IF Len(seq) = 1
         THEN seq[1]
         ELSE seq[1] \o sep \o JoinWith(sep, Tail(seq))

\* lines 150-155 without the ampersand before the last author
AuthorStrPlain(authors) == JoinWith(", ", authors)

\* lines 150-155
AuthorStr(authors) ==
    IF authors = <<>>
    THEN ""
    ELSE IF Len(authors) = 1
         THEN authors[1]
         ELSE JoinWith(", ", SubSeq(authors, 1, Len(authors) - 1))
                  \o ", & " \o authors[Len(authors)]

\* line 157
VolIssue(volume, issue) ==
    IF issue # "" THEN volume \o "(" \o issue \o ")" ELSE volume

\* line 158
DoiUrl(doi) == IF doi # "" THEN "https://doi.org/" \o doi ELSE ""

\* lines 148-165
format_apa(f) ==
    AuthorStr(f.authors) \o " (" \o f.year \o "). " \o f.title \o ". "
        \o f.journal \o ", " \o VolIssue(f.volume, f.issue) \o ", "
        \o f.pages \o ". " \o DoiUrl(f.doi)

InitApa ==
    /\ OrchIdle /\ FetchOff /\ NormOff /\ YearOff
    /\ apa_pc = "called"
    /\ apa_fields \in ApaFields
    /\ apa_citation = ""

\* lines 148-165: the citation is built and returned
FormatApaReturns ==
    /\ apa_pc = "called"
    /\ apa_citation' = format_apa(apa_fields)
    /\ apa_pc' = "returned"
    /\ UNCHANGED <<apa_fields, orch_vars, fetch_vars, norm_vars, year_vars>>

NextApa == FormatApaReturns

SpecApa == InitApa /\ [][NextApa]_vars

RECURSIVE CommaList(_, _)
\* the first n names, each after the first behind a comma and a space
CommaList(names, n) ==
    IF n = 0 THEN ""
    ELSE IF n = 1 THEN names[1]
         ELSE CommaList(names, n - 1) \o ", " \o names[n]

\* the author segment of the template
TemplateAuthors(names) ==
    CASE Len(names) = 0 -> ""
      [] Len(names) = 1 -> names[1]
      [] OTHER -> CommaList(names, Len(names) - 1) \o ", & "
                      \o names[Len(names)]

\* the volume segment of the template
TemplateVol(volume, issue) ==
    CASE issue = "" -> volume
      [] OTHER -> volume \o "(" \o issue \o ")"

\* the last segment of the template
TemplateUrl(doi) ==
    CASE doi = "" -> ""
      [] OTHER -> "https://doi.org/" \o doi

(***************************************************************************)
(* C20: for author lists of length 0, 1 and 2 or more, with and without   *)
(* an issue and an identifier, the citation _format_apa returns is         *)
(* '<authors> (<year>). <title>. <journal>, <vol>, <pages>. <url>', with   *)
(* authors empty, the one name, or the names joined by ', ' with ', & '    *)
(* before the last; vol the volume followed by '(issue)' only when the     *)
(* issue is not empty; url the resolver URL of the identifier, or nothing, *)
(* so that the citation then ends with the pages, a period and a space.    *)
(***************************************************************************)
C20_CitationTemplate ==
    apa_pc = "returned" =>
        apa_citation =
            TemplateAuthors(apa_fields.authors) \o " (" \o apa_fields.year
                \o "). " \o apa_fields.title \o ". " \o apa_fields.journal
                \o ", " \o TemplateVol(apa_fields.volume, apa_fields.issue)
                \o ", " \o apa_fields.pages \o ". "
                \o TemplateUrl(apa_fields.doi)

C20_Witness ==
    /\ apa_pc = "returned"
    /\ apa_fields.authors = <<"Doe, A.", "Smith, J.", "Doe, A.">>
    /\ apa_fields.year = "2020"
    /\ apa_fields.volume = "12"
    /\ apa_fields.issue = ""
    /\ apa_fields.pages = "1-9"
    /\ apa_fields.doi = ""
    /\ apa_citation = "Doe, A., Smith, J., & Doe, A. (2020). T. J, 12, 1-9. "

(***************************************************************************)
(* src/src/pmc_endpoint.py: _parse_article, the year (lines 63-69)         *)
(***************************************************************************)
MaxDates == 3

\* a pub-date element: its pub-type attribute and the text of its year
\* child, "" when it has none; the years tell the elements apart
PubDates ==
    [pub_type : {"epub"}, year : {"", "2021"}]
    \cup [pub_type : {"ppub"}, year : {"", "2020"}]
    \cup [pub_type : {"collection"}, year : {"2019"}]

PubDateLists == UNION { [1..n -> PubDates] : n \in 0..MaxDates }

\* line 65
Eligible(pd) == pd.pub_type \in {"epub", "ppub"}

InitYear ==
    /\ OrchIdle /\ FetchOff /\ NormOff /\ ApaOff
    /\ year_pc = "loop"
    /\ pub_dates \in PubDateLists
    /\ year_i = 0
    /\ year = ""

not_year_vars == <<orch_vars, fetch_vars, norm_vars, apa_vars>>

\* lines 64-67: the element is of another type or has no year
YearSkips ==
    /\ year_pc = "loop"
    /\ year_i < Len(pub_dates)
    /\ ~(Eligible(pub_dates[year_i + 1]) /\ pub_dates[year_i + 1].year # "")
    /\ year_i' = year_i + 1
    /\ UNCHANGED <<year_pc, pub_dates, year, not_year_vars>>

\* lines 64-69: the element is epub or ppub and has a year: break
YearTaken ==
    /\ year_pc = "loop"
    /\ year_i < Len(pub_dates)
    /\ Eligible(pub_dates[year_i + 1])
    /\ pub_dates[year_i + 1].year # ""
    /\ year' = pub_dates[year_i + 1].year
    /\ year_i' = year_i + 1
    /\ year_pc' = "over"
    /\ UNCHANGED <<pub_dates, not_year_vars>>

\* line 64: no element is left
YearLoopEnds ==
    /\ year_pc = "loop"
    /\ ~(year_i < Len(pub_dates))
    /\ year_pc' = "over"
    /\ UNCHANGED <<pub_dates, year_i, year, not_year_vars>>

NextYear ==
    \/ YearSkips
    \/ YearTaken
    \/ YearLoopEnds

SpecYear == InitYear /\ [][NextYear]_vars

\* the positions of the elements of that type that have a year
Dated(type) ==
    {k \in DOMAIN pub_dates :
        pub_dates[k].pub_type = type /\ pub_dates[k].year # ""}

SetMin(S) == CHOOSE x \in S : \A y \in S : x <= y

\* the year of the first electronic-publication element that has one,
\* else of the first print-publication element that has one, else none
PreferredYear ==
    IF Dated("epub") # {}
    THEN pub_dates[SetMin(Dated("epub"))].year
    ELSE IF Dated("ppub") # {}
         THEN pub_dates[SetMin(Dated("ppub"))].year
         ELSE ""

(***************************************************************************)
(* C21: the year _parse_article extracts is the year of the first          *)
(* electronic-publication pub-date that has one, also when a               *)
(* print-publication pub-date with a year comes before it; without such an *)
(* element it is the year of the first print-publication pub-date that     *)
(* has one; without either it is empty.                                    *)
(***************************************************************************)
C21_EpubPreferred ==
    year_pc = "over" => year = PreferredYear

\* C22 as stated: a turn in which the adapter raised ends with the
\* documents it began with
C22_RaisingTurnKeepsDocuments ==
    (TurnOver /\ \E i \in DOMAIN invocations : invocations[i].raised)
    => documents = docs_at_start

\* an adapter invocation is made in this step, and it raises
RaisingInvocation ==
    /\ Len(invocations') = Len(invocations) + 1
    /\ LastOf(invocations').raised

C22_Step ==
    /\ RaisingInvocation => documents' = documents
    /\ ( /\ pc = "finish"
         /\ invocations # <<>>
         /\ \A i \in DOMAIN invocations : invocations[i].raised )
       => documents = docs_at_start

(***************************************************************************)
(* C22 as amended: an adapter invocation that raises leaves                *)
(* active_documents as it was right before that invocation; a turn all of  *)
(* whose adapter invocations raised ends with the active_documents it      *)
(* began with, so an earlier set stays available to follow-up turns.       *)
(***************************************************************************)
C22_RaiseKeepsDocuments == [][C22_Step]_vars

C22_Witness ==
    /\ TurnOver
    /\ docs_at_start # <<>>
    /\ Len(invocations) = 1
    /\ invocations[1].raised
    /\ documents = docs_at_start

\* no tool call of the decision response names a tool of tools_list
NoneRegistered ==
    \A i \in DOMAIN response.tool_calls :
        \A k \in DOMAIN tools_list :
            response.tool_calls[i].name # tools_list[k]

(***************************************************************************)
(* C23: when the decision response has tool calls and none of them names   *)
(* a registered tool, the turn emits no fragment: the adapter is not       *)
(* invoked, no inference stream is opened, active_documents stays as it    *)
(* was, and neither the content of the response nor an answer from the     *)
(* documents is streamed.                                                  *)
(***************************************************************************)
C23_UnregisteredCallsAreSilent ==
    (Decided /\ HasToolCalls(response) /\ NoneRegistered) =>
        /\ chunks = <<>>
        /\ full_response = ""
        /\ rendered = <<>>
        /\ invocations = <<>>
        /\ streamed = <<>>
        /\ stream_messages = <<>>
        /\ documents = docs_at_start
        /\ \A p \in DOMAIN log : log[p] = "ainvoke"

C23_Witness ==
    /\ TurnOver
    /\ outcome = "completed"
    /\ HasToolCalls(response)
    /\ NoneRegistered
    /\ response.has_content
    /\ docs_at_start # <<>>
    /\ chunks = <<>>

\* the tool call names a tool of tools_list
IsRegistered(call) == \E k \in DOMAIN tools_list : call.name = tools_list[k]

\* the retrieval calls of the decision response, in the order given
RetrievalCalls == SelectSeq(response.tool_calls, IsRegistered)

\* the adapter invocations of the turn so far that did not raise
Returned == {i \in DOMAIN invocations : ~invocations[i].raised}

\* what the last of them returned, or the documents the turn began with
LastReturned ==
    IF Returned = {}
    THEN docs_at_start
    ELSE invocations[CHOOSE i \in Returned : \A j \in Returned : j <= i].value

\* the progress fragments among the fragments of the turn
ProgressFragments ==
    {n \in DOMAIN chunks :
        \E k \in DOMAIN RetrievalCalls :
            chunks[n] = "Searching **"
                \o (IF RetrievalCalls[k].has_query
                    THEN RetrievalCalls[k].query ELSE "") \o "**|"}

(***************************************************************************)
(* C24: the retrieval calls of a decision response are processed one       *)
(* after another in the order given, each with its own progress fragment   *)
(* and its own adapter invocation; a call that fails or returns nothing    *)
(* does not keep the next from running; at the end of the turn             *)
(* active_documents is the result list of the last call, in that order,    *)
(* whose adapter invocation did not raise.                                 *)
(***************************************************************************)
C24_CallsInOrder ==
    (Decided /\ HasToolCalls(response)) =>
        /\ Len(invocations) <= Len(RetrievalCalls)
        /\ \A k \in DOMAIN invocations :
               /\ invocations[k].query =
                      (IF RetrievalCalls[k].has_query
                       THEN RetrievalCalls[k].query ELSE "")
               /\ invocations[k].max_results =
                      (IF RetrievalCalls[k].has_max_results
                       THEN RetrievalCalls[k].max_results ELSE 3)
        /\ C8_ProgressBeforeInvoke
        /\ Cardinality(ProgressFragments) =
               Len(invocations) + (IF pc = "invoking" THEN 1 ELSE 0)
        /\ documents = LastReturned
        /\ outcome # "raised"
        /\ TurnOver => Len(invocations) = Len(RetrievalCalls)

C24_Witness ==
    /\ TurnOver
    /\ Len(RetrievalCalls) = 2
    /\ Len(invocations) = 2
    /\ ~invocations[1].raised
    /\ invocations[1].value # <<>>
    /\ invocations[2].raised
    /\ docs_at_start # invocations[1].value
    /\ documents = invocations[1].value

\* the opening of the synthesis stream that raised at log position p
OpenedBefore(p) ==
    CHOOSE s \in At("synth_stream") :
        s < p /\ \A r \in At("synth_stream") : r < p => r <= s

\* the log positions where a synthesis stream raised: in a turn with tool
\* calls, the only stream opened is the synthesis stream
SynthRaisedAt == IF HasToolCalls(response) THEN At("stream_raised") ELSE {}

(***************************************************************************)
(* C25: when a retrieval returned at least one record and its synthesis    *)
(* stream then raises, the exception stays inside the turn: after the      *)
(* fragments streamed so far comes one error fragment with the message of  *)
(* the failure, no closing invitation is emitted for that retrieval, and   *)
(* active_documents holds the record list that retrieval returned.         *)
(***************************************************************************)
C25_SynthesisFailureCaught ==
    \A p \in SynthRaisedAt :
        /\ outcome # "raised"
        /\ ~invocations[InvocationAt(p)].raised
        /\ invocations[InvocationAt(p)].value # <<>>
        /\ \A q \in (OpenedBefore(p) + 1)..(p - 1) :
               /\ log[q] = "yield"
               /\ chunks[FragmentAt(q)] # "|Any other follow-up questions?"
        /\ Len(log) > p
        /\ log[p + 1] = "yield"
        /\ chunks[FragmentAt(p + 1)] = "Error: stream down"
        /\ Len(log) > p + 1 =>
               /\ log[p + 2] = "yield"
               /\ FragmentAt(p + 2) \in ProgressFragments
        /\ Len(log) = p + 1 =>
               /\ documents = invocations[InvocationAt(p)].value
               /\ LastOf(chunks) = "Error: stream down"
               /\ \A n \in DOMAIN chunks :
                      n > FragmentAt(OpenedBefore(p)) =>
                          chunks[n] # "|Any other follow-up questions?"

C25_Witness ==
    /\ TurnOver
    /\ outcome = "completed"
    /\ SynthRaisedAt # {}
    /\ Len(log) = LastSynth + Len(streamed) + 2
    /\ Len(streamed) >= 1
    /\ LastOf(chunks) = "Error: stream down"
    /\ documents = LastOf(invocations).value
    /\ documents # docs_at_start

(***************************************************************************)
(* C26: main appends to the session history only once the fragments of     *)
(* the turn are consumed to the end: while astream runs the history is     *)
(* the one before the turn, and a turn that astream leaves by raising (at  *)
(* the decision call or in the follow-up stream) ends with that history,   *)
(* holding neither the user message nor the fragments received so far.     *)
(***************************************************************************)
C26_RaisedTurnLeavesHistory ==
    /\ pc # "idle" => chat_history = history_at_start
    /\ (TurnOver /\ outcome = "raised") =>
           /\ chat_history = history_at_start
           /\ Len(chat_history) <= 2 * (turns - 1)
    /\ (TurnOver /\ outcome = "completed") =>
           /\ Len(chat_history) = Len(history_at_start) + 2
           /\ SubSeq(chat_history, 1, Len(history_at_start))
                  = history_at_start

C26_Witness ==
    /\ TurnOver
    /\ outcome = "raised"
    /\ At("qa_stream") # {}
    /\ chunks # <<>>
    /\ full_response # ""
    /\ history_at_start # <<>>
    /\ chat_history = history_at_start

====
